---- MODULE Spec2Model ----
(***************************************************************************)
(* A model of the Snake game of ACGm.py: the Position / Direction          *)
(* arithmetic, the Food and Snake entities and the SnakeGame controller    *)
(* with its main loop (handle_input, update, loop test).                   *)
(*                                                                         *)
(* Three specifications are given.                                         *)
(*   Spec      : the program, i.e. SnakeGame.run() from the constructed    *)
(*               game: one step per polled event, one for the return of    *)
(*               handle_input and one for update and the loop test.        *)
(*   SnakeSpec : the Snake class on its own, its three mutating methods    *)
(*               called in any order (the class contract).                 *)
(*   LiveSpec  : the program with the fairness of its loop, on a smaller   *)
(*               set of inputs, for the termination of run().              *)
(* The grid of the program is 40 x 30 cells; the model keeps the program's *)
(* formulas for the grid and scales the window down (GridCols, GridRows).  *)
(***************************************************************************)
EXTENDS Integers, Sequences, FiniteSets, TLC

\* ------------------------------------------------------------------ bounds
\* Number of grid columns / rows of the scaled-down window.
GridCols == 4
GridRows == 4
\* The loop is followed while the playing snake has fewer than MaxLen segments.
MaxLen == 5
\* SnakeSpec: at most this many grow() calls between two update() calls.
MaxGrowCalls == 2

\* --------------------------------------------------------------- constants
GRID_SIZE == 20
WINDOW_WIDTH == GridCols * GRID_SIZE
WINDOW_HEIGHT == GridRows * GRID_SIZE
GRID_WIDTH == WINDOW_WIDTH \div GRID_SIZE
GRID_HEIGHT == WINDOW_HEIGHT \div GRID_SIZE
\* score += 10
FoodScore == 10

\* ------------------------------------------------------ Direction, Position
Direction == {"UP", "DOWN", "LEFT", "RIGHT"}

\* Direction.value: the unit delta (dx, dy)
DirectionValue(d) ==
    CASE d = "UP"    -> <<0, -1>>
      [] d = "DOWN"  -> <<0, 1>>
      [] d = "LEFT"  -> <<-1, 0>>
      [] d = "RIGHT" -> <<1, 0>>

Position(px, py) == [x |-> px, y |-> py]

\* Position.__add__: adds the delta, no wrapping
PositionAdd(p, d) ==
    Position(p.x + DirectionValue(d)[1], p.y + DirectionValue(d)[2])

\* Position.__eq__
PositionEq(a, b) == a.x = b.x /\ a.y = b.y

\* ---------------------------------------------------------------------- Food
\* Food._generate_position: the cells random.randint can produce
GeneratePosition ==
    {Position(px, py) : px \in 0..(GRID_WIDTH - 1), py \in 0..(GRID_HEIGHT - 1)}

\* --------------------------------------------------------------------- Snake
\* Snake.__init__
NewSnake ==
    [body           |-> <<Position(GRID_WIDTH \div 2, GRID_HEIGHT \div 2)>>,
     direction      |-> "RIGHT",
     next_direction |-> "RIGHT",
     grow_pending   |-> FALSE]

\* Variant of Snake.update that drops the tail on every call, pending growth
\* or not.
SnakeUpdate_AlwaysPop(s) ==
    LET dir      == s.next_direction
        moved    == PositionAdd(s.body[1], dir)
        new_head == Position(moved.x % GRID_WIDTH, moved.y % GRID_HEIGHT)
    IN  [body           |-> SubSeq(<<new_head>> \o s.body, 1, Len(s.body)),
         direction      |-> dir,
         next_direction |-> s.next_direction,
         grow_pending   |-> FALSE]

\* Variant of Snake.update that does not wrap the x axis.
SnakeUpdate_NoWrapX(s) ==
    LET dir      == s.next_direction
        moved    == PositionAdd(s.body[1], dir)
        new_head == Position(moved.x, moved.y % GRID_HEIGHT)
        inserted == <<new_head>> \o s.body
    IN  [body           |-> IF ~s.grow_pending
                            THEN SubSeq(inserted, 1, Len(inserted) - 1)
                            ELSE inserted,
         direction      |-> dir,
         next_direction |-> s.next_direction,
         grow_pending   |-> FALSE]

\* Snake.update
SnakeUpdate(s) ==
    LET dir      == s.next_direction
        moved    == PositionAdd(s.body[1], dir)
        new_head == Position(moved.x % GRID_WIDTH, moved.y % GRID_HEIGHT)
        inserted == <<new_head>> \o s.body
    IN  [body           |-> IF ~s.grow_pending
                            THEN SubSeq(inserted, 1, Len(inserted) - 1)
                            ELSE inserted,
         direction      |-> dir,
         next_direction |-> s.next_direction,
         grow_pending   |-> FALSE]

\* Variant of Snake.grow that appends the new segment at once.
SnakeGrow_Immediate(s) ==
    [s EXCEPT !.grow_pending = TRUE,
              !.body = Append(s.body, s.body[Len(s.body)])]

\* Snake.grow
SnakeGrow(s) == [s EXCEPT !.grow_pending = TRUE]

\* Variant of Snake.check_collision that looks for the head in the whole
\* body (head in body).
CheckCollision_WholeBody(s) ==
    \E i \in 1..Len(s.body) : PositionEq(s.body[1], s.body[i])

\* Variant of Snake.check_collision that leaves the tail out of the test.
CheckCollision_SkipTail(s) ==
    \E i \in 2..(Len(s.body) - 1) : PositionEq(s.body[1], s.body[i])

\* Snake.check_collision: head in body[1:]
CheckCollision(s) ==
    \E i \in 2..Len(s.body) : PositionEq(s.body[1], s.body[i])

\* the opposite table of Snake.set_direction
Opposite(d) ==
    CASE d = "UP"    -> "DOWN"
      [] d = "DOWN"  -> "UP"
      [] d = "LEFT"  -> "RIGHT"
      [] d = "RIGHT" -> "LEFT"

\* Variant of Snake.set_direction that tests the intended direction instead
\* of the current heading.
SetDirection_GuardOnNext(s, d) ==
    IF d # Opposite(s.next_direction) THEN [s EXCEPT !.next_direction = d] ELSE s

\* Variant of Snake.set_direction without the 180-degree guard.
SetDirection_NoGuard(s, d) == [s EXCEPT !.next_direction = d]

\* Snake.set_direction
SetDirection(s, d) ==
    IF d # Opposite(s.direction) THEN [s EXCEPT !.next_direction = d] ELSE s

\* ----------------------------------------------------------------- SnakeGame
GameState == {"MENU", "PLAYING", "GAME_OVER"}

\* The events pygame.event.get() can deliver: the window-close event, the
\* keys the program tests, one other key and one event that is no key press.
Events == {"QUIT", "K_SPACE", "K_UP", "K_DOWN", "K_LEFT", "K_RIGHT", "K_q",
           "K_OTHER", "NOKEY"}

KeyDown == Events \ {"QUIT", "NOKEY"}

VARIABLES
    state,        \* SnakeGame.state
    snake,        \* SnakeGame.snake : body (head first), direction,
                  \*                   next_direction, grow_pending
    food,         \* SnakeGame.food.position
    score,        \* SnakeGame.score
    high_score,   \* SnakeGame.high_score
    running,      \* SnakeGame.running
    pc,           \* position in run(): "handle_input" (in the event loop of
                  \* this iteration), "update" (handle_input has returned)
                  \* or "done" (the while loop has exited)
    grow_calls    \* history: grow() calls on the snake since its last update()

vars == <<state, snake, food, score, high_score, running, pc, grow_calls>>

\* The SnakeGame object as a record, for the handlers below.
Game == [state |-> state, snake |-> snake, food |-> food, score |-> score,
         high_score |-> high_score, running |-> running]

\* Variant of SnakeGame.start_game that keeps the score of the last game.
StartGame_KeepScore(g, pos) ==
    [g EXCEPT !.snake = NewSnake, !.food = pos, !.state = "PLAYING"]

\* Variant of SnakeGame.start_game that also sets the running flag.
StartGame_SetsRunning(g, pos) ==
    [g EXCEPT !.snake = NewSnake, !.food = pos, !.score = 0,
              !.state = "PLAYING", !.running = TRUE]

\* SnakeGame.start_game; pos is the cell drawn by Food()
StartGame(g, pos) ==
    [g EXCEPT !.snake = NewSnake, !.food = pos, !.score = 0,
              !.state = "PLAYING"]

\* the key of a direction key
KeyDirection(ev) ==
    CASE ev = "K_UP"    -> "UP"
      [] ev = "K_DOWN"  -> "DOWN"
      [] ev = "K_LEFT"  -> "LEFT"
      [] ev = "K_RIGHT" -> "RIGHT"

\* Variant of the event loop in which the quit key of the game-over screen
\* goes back to the menu.
HandleEvent_QuitToMenu(g, ev, pos) ==
    LET g1 == IF ev = "QUIT" THEN [g EXCEPT !.running = FALSE] ELSE g
    IN  IF ev \notin KeyDown THEN g1
        ELSE IF g1.state = "MENU"
             THEN IF ev = "K_SPACE" THEN StartGame(g1, pos) ELSE g1
        ELSE IF g1.state = "PLAYING"
             THEN IF ev \in {"K_UP", "K_DOWN", "K_LEFT", "K_RIGHT"}
                  THEN [g1 EXCEPT !.snake = SetDirection(g1.snake, KeyDirection(ev))]
                  ELSE g1
        ELSE IF g1.state = "GAME_OVER"
             THEN IF ev = "K_SPACE" THEN StartGame(g1, pos)
                  ELSE IF ev = "K_q" THEN [g1 EXCEPT !.state = "MENU"]
                  ELSE g1
        ELSE g1

\* One iteration of the event loop of SnakeGame.handle_input
HandleEvent(g, ev, pos) ==
    LET g1 == IF ev = "QUIT" THEN [g EXCEPT !.running = FALSE] ELSE g
    IN  IF ev \notin KeyDown THEN g1
        ELSE IF g1.state = "MENU"
             THEN IF ev = "K_SPACE" THEN StartGame(g1, pos) ELSE g1
        ELSE IF g1.state = "PLAYING"
             THEN IF ev \in {"K_UP", "K_DOWN", "K_LEFT", "K_RIGHT"}
                  THEN [g1 EXCEPT !.snake = SetDirection(g1.snake, KeyDirection(ev))]
                  ELSE g1
        ELSE IF g1.state = "GAME_OVER"
             THEN IF ev = "K_SPACE" THEN StartGame(g1, pos)
                  ELSE IF ev = "K_q" THEN [g1 EXCEPT !.running = FALSE]
                  ELSE g1
        ELSE g1

\* Variant of SnakeGame.update that does not call snake.grow().
GameUpdate_NoGrow(g, pos) ==
    IF g.state # "PLAYING" THEN g
    ELSE LET moved  == SnakeUpdate(g.snake)
             eats   == PositionEq(moved.body[1], g.food)
             food1  == IF eats THEN pos ELSE g.food
             score1 == IF eats THEN g.score + FoodScore ELSE g.score
             hit    == CheckCollision(moved)
         IN  [g EXCEPT !.snake = moved, !.food = food1, !.score = score1,
                       !.state = IF hit THEN "GAME_OVER" ELSE g.state,
                       !.high_score = IF hit /\ score1 > g.high_score
                                      THEN score1 ELSE g.high_score]

\* Variant of SnakeGame.update that stores the score as high score at every
\* game over.
GameUpdate_OverwriteHigh(g, pos) ==
    IF g.state # "PLAYING" THEN g
    ELSE LET moved  == SnakeUpdate(g.snake)
             eats   == PositionEq(moved.body[1], g.food)
             fed    == IF eats THEN SnakeGrow(moved) ELSE moved
             food1  == IF eats THEN pos ELSE g.food
             score1 == IF eats THEN g.score + FoodScore ELSE g.score
             hit    == CheckCollision(fed)
         IN  [g EXCEPT !.snake = fed, !.food = food1, !.score = score1,
                       !.state = IF hit THEN "GAME_OVER" ELSE g.state,
                       !.high_score = IF hit THEN score1 ELSE g.high_score]

\* Variant of SnakeGame.update without the test of the game state.
GameUpdate_NoStateGuard(g, pos) ==
    LET moved  == SnakeUpdate(g.snake)
        eats   == PositionEq(moved.body[1], g.food)
        fed    == IF eats THEN SnakeGrow(moved) ELSE moved
        food1  == IF eats THEN pos ELSE g.food
        score1 == IF eats THEN g.score + FoodScore ELSE g.score
        hit    == CheckCollision(fed)
    IN  [g EXCEPT !.snake = fed, !.food = food1, !.score = score1,
                  !.state = IF hit THEN "GAME_OVER" ELSE g.state,
                  !.high_score = IF hit /\ score1 > g.high_score
                                 THEN score1 ELSE g.high_score]

\* Variant of SnakeGame.update that tests the self collision first and skips
\* the food check of a tick that ends the game.
GameUpdate_CollisionFirst(g, pos) ==
    IF g.state # "PLAYING" THEN g
    ELSE LET moved  == SnakeUpdate(g.snake)
             hit    == CheckCollision(moved)
             eats   == ~hit /\ PositionEq(moved.body[1], g.food)
             fed    == IF eats THEN SnakeGrow(moved) ELSE moved
             food1  == IF eats THEN pos ELSE g.food
             score1 == IF eats THEN g.score + FoodScore ELSE g.score
         IN  [g EXCEPT !.snake = fed, !.food = food1, !.score = score1,
                       !.state = IF hit THEN "GAME_OVER" ELSE g.state,
                       !.high_score = IF hit /\ score1 > g.high_score
                                      THEN score1 ELSE g.high_score]

\* SnakeGame.update; pos is the cell drawn by Food.respawn
GameUpdate(g, pos) ==
    IF g.state # "PLAYING" THEN g
    ELSE LET moved  == SnakeUpdate(g.snake)
             eats   == PositionEq(moved.body[1], g.food)
             fed    == IF eats THEN SnakeGrow(moved) ELSE moved
             food1  == IF eats THEN pos ELSE g.food
             score1 == IF eats THEN g.score + FoodScore ELSE g.score
             hit    == CheckCollision(fed)
         IN  [g EXCEPT !.snake = fed, !.food = food1, !.score = score1,
                       !.state = IF hit THEN "GAME_OVER" ELSE g.state,
                       !.high_score = IF hit /\ score1 > g.high_score
                                      THEN score1 ELSE g.high_score]

\* Does this event construct a Food() (start_game is called)?
Starts(ev) == ev = "K_SPACE" /\ state \in {"MENU", "GAME_OVER"}

\* Does this update call Food.respawn (the moved head is on the food)?
Eats == state = "PLAYING" /\ PositionEq(SnakeUpdate(snake).body[1], food)

\* The loop goes on with a snake that is still playing.
Continues(g) == g.running /\ g.state = "PLAYING"

SetGame(g) ==
    /\ state' = g.state
    /\ snake' = g.snake
    /\ food' = g.food
    /\ score' = g.score
    /\ high_score' = g.high_score
    /\ running' = g.running

\* SnakeGame.__init__ : the food cell is random
Init ==
    /\ state = "MENU"
    /\ snake = NewSnake
    /\ food \in GeneratePosition
    /\ score = 0
    /\ high_score = 0
    /\ running = TRUE
    /\ pc = "handle_input"
    /\ grow_calls = 0

\* handle_input: the body of the for loop, for one polled event
Event(ev) ==
    /\ pc = "handle_input"
    /\ \E pos \in (IF Starts(ev) THEN GeneratePosition ELSE {food}) :
           SetGame(HandleEvent(Game, ev, pos))
    /\ grow_calls' = IF Starts(ev) THEN 0 ELSE grow_calls
    /\ pc' = pc

\* handle_input: the polled events are exhausted, the handler returns
EndInput ==
    /\ pc = "handle_input"
    /\ pc' = "update"
    /\ UNCHANGED <<state, snake, food, score, high_score, running, grow_calls>>

\* Variant of the loop of run() whose test does not look at running.
Update_IgnoresRunning ==
    /\ pc = "update"
    /\ \E pos \in (IF Eats THEN GeneratePosition ELSE {food}) :
           /\ Continues(GameUpdate(Game, pos)) =>
                  Len(GameUpdate(Game, pos).snake.body) < MaxLen
           /\ SetGame(GameUpdate(Game, pos))
    /\ grow_calls' = IF state = "PLAYING" THEN (IF Eats THEN 1 ELSE 0)
                     ELSE grow_calls
    /\ pc' = "handle_input"

\* run(): update(), draw(), clock.tick() and the test of the while loop
Update ==
    /\ pc = "update"
    /\ \E pos \in (IF Eats THEN GeneratePosition ELSE {food}) :
           /\ Continues(GameUpdate(Game, pos)) =>
                  Len(GameUpdate(Game, pos).snake.body) < MaxLen
           /\ SetGame(GameUpdate(Game, pos))
    /\ grow_calls' = IF state = "PLAYING" THEN (IF Eats THEN 1 ELSE 0)
                     ELSE grow_calls
    /\ pc' = IF running THEN "handle_input" ELSE "done"

Next == (\E ev \in Events : Event(ev)) \/ EndInput \/ Update

Spec == Init /\ [][Next]_vars

\* --------------------------------------------- the loop with its scheduling
\* For the termination of the loop the inputs are drawn from smaller sets:
\* the events that start, quit or turn the snake once, and food cells of the
\* row the snake starts in (a snake that keeps its heading eats them and, on
\* the torus, runs into its own tail).
LiveEvents == {"QUIT", "K_SPACE", "K_q", "K_DOWN", "K_OTHER"}

LiveCells == {p \in GeneratePosition : p.y = GRID_HEIGHT \div 2}

LiveInit == Init /\ food \in LiveCells

LiveEvent(ev) == Event(ev) /\ food' \in LiveCells

LiveUpdate == Update /\ food' \in LiveCells

LiveNext == (\E ev \in LiveEvents : LiveEvent(ev)) \/ EndInput \/ LiveUpdate

\* pygame.event.get() returns a finite list, so the for loop of handle_input
\* ends and the handler returns; update(), draw() and clock.tick() return, so
\* the test of the while loop is reached.
LiveSpec ==
    LiveInit /\ [][LiveNext]_vars /\ WF_vars(EndInput) /\ WF_vars(LiveUpdate)


\* ----------------------------------------------- the Snake class on its own
\* A Snake() as constructed; the controller's fields are not used and keep
\* the values of a constructed game.
SnakeInit ==
    /\ snake = NewSnake
    /\ grow_calls = 0
    /\ state = "MENU"
    /\ food = Position(0, 0)
    /\ score = 0
    /\ high_score = 0
    /\ running = TRUE
    /\ pc = "handle_input"

controller == <<state, food, score, high_score, running, pc>>

\* snake.set_direction(d)
SnSetDirection(d) ==
    /\ snake' = SetDirection(snake, d)
    /\ UNCHANGED <<grow_calls, controller>>

\* snake.update()
SnUpdate ==
    /\ snake' = SnakeUpdate(snake)
    /\ grow_calls' = 0
    /\ UNCHANGED controller

\* snake.grow()
SnGrow ==
    /\ grow_calls < MaxGrowCalls
    /\ Len(snake.body) < MaxLen
    /\ snake' = SnakeGrow(snake)
    /\ grow_calls' = grow_calls + 1
    /\ UNCHANGED controller

SnakeNext == (\E d \in Direction : SnSetDirection(d)) \/ SnUpdate \/ SnGrow

SnakeSpec == SnakeInit /\ [][SnakeNext]_vars


\* =================================================================== claims

\* C1 (SnakeSpec): in every reachable snake state, whatever direction is
\* pending, for every direction d that is not the opposite of the current
\* heading, set_direction(d) followed immediately by update() makes the
\* heading equal to d.
C1_AllowedTurnCommitted ==
    \A d \in Direction :
        d # Opposite(snake.direction) =>
            SnakeUpdate(SetDirection(snake, d)).direction = d

\* A snake heading RIGHT with UP pending, on which set_direction(DOWN) and
\* update() give the heading DOWN.
C1_Witness ==
    /\ snake.direction = "RIGHT"
    /\ snake.next_direction = "UP"
    /\ Len(snake.body) > 1
    /\ SnakeUpdate(SetDirection(snake, "DOWN")).direction = "DOWN"

\* C2, as claimed (Spec): in every reachable snake state, whatever direction
\* is pending, set_direction(opposite of the heading) followed immediately
\* by update() leaves the heading unchanged.
C2_Original ==
    \A d \in Direction :
        d = Opposite(snake.direction) =>
            SnakeUpdate(SetDirection(snake, d)).direction = snake.direction

\* C2, amended (Spec): set_direction(opposite of the heading) is ignored, so
\* the update() that follows commits the direction that was pending before
\* the call, which is never d; the heading is unchanged when no other
\* direction was pending.
C2_ReversalIgnored ==
    \A d \in Direction :
        d = Opposite(snake.direction) =>
            /\ SetDirection(snake, d) = snake
            /\ SnakeUpdate(SetDirection(snake, d)).direction = snake.next_direction
            /\ SnakeUpdate(SetDirection(snake, d)).direction # d
            /\ (snake.next_direction = snake.direction =>
                    SnakeUpdate(SetDirection(snake, d)).direction = snake.direction)

\* A playing snake heading RIGHT with UP pending: set_direction(LEFT) is
\* ignored and update() turns it UP.
C2_Witness ==
    /\ state = "PLAYING"
    /\ snake.direction = "RIGHT"
    /\ snake.next_direction = "UP"
    /\ SetDirection(snake, "LEFT") = snake
    /\ SnakeUpdate(SetDirection(snake, "LEFT")).direction = "UP"

\* C3 (SnakeSpec): every update() leaves the body length unchanged, except
\* when grow() was called at least once since the previous update(): then the
\* length increases by exactly 1, however many calls there were; update()
\* clears the pending-growth flag; grow() never changes the body.
C3_LengthAcrossUpdate ==
    [][ /\ SnUpdate =>
             /\ Len(snake'.body) =
                    Len(snake.body) + (IF grow_calls > 0 THEN 1 ELSE 0)
             /\ snake'.grow_pending = FALSE
        /\ SnGrow =>
             /\ snake'.body = snake.body
             /\ Len(snake'.body) = Len(snake.body) ]_vars

\* A snake that grew from one segment to three, with two grow() calls pending
\* before its next update().
C3_Witness ==
    /\ Len(snake.body) = 3
    /\ grow_calls = 2
    /\ snake.grow_pending


\* ------------------------------------------------- vocabulary of C4 .. C10
\* The cell is on the grid.
InGrid(p) == p.x \in 0..(GRID_WIDTH - 1) /\ p.y \in 0..(GRID_HEIGHT - 1)

\* One cell from p in direction d on the torus, edge by edge.
WrapStep(p, d) ==
    CASE d = "RIGHT" -> Position(IF p.x = GRID_WIDTH - 1 THEN 0 ELSE p.x + 1, p.y)
      [] d = "LEFT"  -> Position(IF p.x = 0 THEN GRID_WIDTH - 1 ELSE p.x - 1, p.y)
      [] d = "DOWN"  -> Position(p.x, IF p.y = GRID_HEIGHT - 1 THEN 0 ELSE p.y + 1)
      [] d = "UP"    -> Position(p.x, IF p.y = 0 THEN GRID_HEIGHT - 1 ELSE p.y - 1)

\* The head's cell is the cell of more than one segment of the body.
HeadDuplicated(b) == Cardinality({i \in 1..Len(b) : b[i] = b[1]}) > 1

\* The loop is about to run update() while the game is playing: the step
\* taken from such a state is a tick.
PlayingTick == pc = "update" /\ state = "PLAYING"

\* The loop is inside handle_input: the step taken from such a state handles
\* a polled event or returns from the handler.
Polling == pc = "handle_input"

Max(a, b) == IF a >= b THEN a ELSE b

\* C4 (Spec): after every update() of the snake the new head is the old head
\* moved one cell in the committed direction, each axis wrapped modulo the
\* grid dimension; and in every reachable state every body segment and the
\* food lie on the grid.
C4_HeadWrapsOnGrid ==
    /\ [](/\ \A i \in 1..Len(snake.body) : InGrid(snake.body[i])
          /\ InGrid(food))
    /\ [][PlayingTick =>
             /\ snake'.direction = snake.next_direction
             /\ snake'.body[1] = WrapStep(snake.body[1], snake'.direction)]_vars

\* A snake that left the grid by the right edge and re-entered in column 0,
\* and whose tail crossed the left edge the other way round.
C4_Witness ==
    /\ Len(snake.body) >= 3
    /\ snake.direction = "RIGHT"
    /\ snake.body[1].x = 0
    /\ snake.body[2].x = GRID_WIDTH - 1
    /\ \E i \in 2..(Len(snake.body) - 1) :
           snake.body[i].x = GRID_WIDTH - 1 /\ snake.body[i + 1].x = 0

\* C5 (Spec): a tick taken in state Playing ends in state GameOver if and
\* only if, after the move, the head's cell is the cell of some other
\* segment; otherwise the state stays Playing.
C5_GameOverIffHeadDuplicated ==
    [][PlayingTick =>
          /\ state' = (IF HeadDuplicated(snake'.body) THEN "GAME_OVER"
                                                     ELSE "PLAYING")]_vars

\* A game that has just been lost: the head sits on another segment.
C5_Witness ==
    /\ state = "GAME_OVER"
    /\ \E i \in 2..Len(snake.body) : snake.body[i] = snake.body[1]

\* C6 (Spec): in a Playing tick, if the moved head is on the food, the score
\* increases by exactly 10, the pending-growth flag is set and the food is
\* respawned on some cell of the grid; if it is not, the score and the food
\* are unchanged and the flag stays as update() of the snake left it (clear).
C6_FoodCheck ==
    [][PlayingTick =>
          IF snake'.body[1] = food
          THEN /\ score' = score + 10
               /\ snake'.grow_pending = TRUE
               /\ InGrid(food')
          ELSE /\ score' = score
               /\ food' = food
               /\ snake'.grow_pending = FALSE]_vars

\* A snake that has just eaten its second food: the head is where the food
\* was, growth is pending.
C6_Witness ==
    /\ state = "PLAYING"
    /\ score = 20
    /\ snake.grow_pending
    /\ Len(snake.body) = 2

\* C7, as claimed (Spec): in a tick where the snake eats, the body examined
\* by the collision check of that tick already contains the segment gained
\* from that food: it has one segment per food eaten so far, plus the head.
C7_Original ==
    [][(PlayingTick /\ snake'.body[1] = food) =>
          Len(snake'.body) = 1 + score' \div FoodScore]_vars

\* C7, amended (Spec): in a tick where the snake eats, grow() only sets the
\* pending flag before the collision check: the body examined in that tick
\* does not yet contain the segment gained from that food (it has one segment
\* per food eaten before this one, plus the head), the game-over decision of
\* the tick is taken on that body, and the segment is added by the next
\* update().
C7_GrowthDeferred ==
    [][/\ (PlayingTick /\ snake'.body[1] = food) =>
             /\ snake'.grow_pending
             /\ Len(snake'.body) = score' \div FoodScore
             /\ Len(snake'.body) = 1 + score \div FoodScore
             /\ (state' = "GAME_OVER") = HeadDuplicated(snake'.body)
       /\ (PlayingTick /\ snake.grow_pending) =>
             Len(snake'.body) = Len(snake.body) + 1]_vars

\* A snake of three segments that has just eaten its third food.
C7_Witness ==
    /\ snake.grow_pending
    /\ score = 3 * FoodScore
    /\ Len(snake.body) = 3

\* C8 (Spec): high_score is the maximum of the final scores of the games
\* lost so far (0 if none): it starts at 0, it becomes max(high_score, score)
\* on each Playing-to-GameOver transition and is changed by nothing else
\* (start_game included), so it never decreases; and in state GameOver
\* high_score >= score.
C8_HighScoreIsMax ==
    /\ [](state = "GAME_OVER" => high_score >= score)
    /\ [](state = "MENU" => high_score = 0)
    /\ [][/\ high_score' >= high_score
          /\ high_score' = (IF state = "PLAYING" /\ state' = "GAME_OVER"
                            THEN Max(high_score, score')
                            ELSE high_score)]_vars

\* A lost game whose final score is below the high score of an earlier game.
C8_Witness ==
    /\ state = "GAME_OVER"
    /\ score > 0
    /\ high_score > score

\* C9 (Spec): a start signal in state Menu or GameOver puts the game in state
\* Playing with a fresh snake (one segment at the grid centre, heading and
\* intended direction Right, no pending growth), a newly placed food on the
\* grid and score 0, whatever the previous snake, score and pending growth.
C9_StartGameFresh ==
    [][(Polling /\ state \in {"MENU", "GAME_OVER"} /\ Event("K_SPACE")) =>
          /\ state' = "PLAYING"
          /\ snake' = [body |-> <<[x |-> GRID_WIDTH \div 2,
                                   y |-> GRID_HEIGHT \div 2]>>,
                       direction |-> "RIGHT", next_direction |-> "RIGHT",
                       grow_pending |-> FALSE]
          /\ InGrid(food')
          /\ score' = 0
          /\ high_score' = high_score]_vars

\* A game restarted after a lost one: fresh snake, score 0, the high score
\* of the lost game kept.
C9_Witness ==
    /\ state = "PLAYING"
    /\ score = 0
    /\ high_score > 0
    /\ Len(snake.body) = 1
    /\ snake.body[1] = Position(GRID_WIDTH \div 2, GRID_HEIGHT \div 2)
    /\ snake.next_direction = "RIGHT"
    /\ ~snake.grow_pending
    /\ pc = "handle_input"

\* C10 (Spec): the only changes of the game state are Menu to Playing on a
\* start signal, Playing to GameOver on a tick with a self-collision and
\* GameOver to Playing on a start signal; no event changes the state of a
\* playing game.
C10_Transitions ==
    [][/\ state' # state =>
             \/ state = "MENU" /\ state' = "PLAYING" /\ Event("K_SPACE")
             \/ /\ state = "PLAYING" /\ state' = "GAME_OVER"
                /\ PlayingTick /\ HeadDuplicated(snake'.body)
             \/ state = "GAME_OVER" /\ state' = "PLAYING" /\ Event("K_SPACE")
       /\ (state = "PLAYING" /\ Polling) => state' = "PLAYING"]_vars

\* A second game under way after a lost one: all three transitions occurred.
C10_Witness ==
    /\ state = "PLAYING"
    /\ high_score > 0
    /\ Len(snake.body) > 1


\* ------------------------------------------------ vocabulary of C11 .. C19
DirectionKeys == {"K_UP", "K_DOWN", "K_LEFT", "K_RIGHT"}

\* The cells of the body are pairwise distinct.
BodyDistinct(b) == \A i, j \in 1..Len(b) : i # j => b[i] # b[j]

\* C11 (Spec): across any sequence of direction keys and ticks, several keys
\* in one poll included, the intended direction is never the opposite of the
\* current heading, so the heading committed by an update() is never the
\* opposite of the heading before it.
C11_NoReversal ==
    /\ [](snake.next_direction # Opposite(snake.direction))
    /\ [][PlayingTick => snake'.direction # Opposite(snake.direction)]_vars

\* A snake of several segments heading DOWN, for which a second direction
\* key of the same poll has replaced a pending turn: LEFT is pending when
\* handle_input returns.
C11_Witness ==
    /\ state = "PLAYING"
    /\ pc = "update"
    /\ Len(snake.body) >= 2
    /\ snake.direction = "DOWN"
    /\ snake.next_direction = "LEFT"

\* C12 (Spec): in every reachable state the body is non-empty and every two
\* consecutive segments are one step apart on the torus: body[i] is
\* body[i+1] moved by one unit direction, both axes modulo the grid.
C12_BodyConnected ==
    /\ Len(snake.body) >= 1
    /\ \A i \in 1..(Len(snake.body) - 1) :
           \E d \in Direction :
               snake.body[i] = WrapStep(snake.body[i + 1], d)

\* A body of four segments with a turn in it and a pair of neighbours on
\* opposite edges of the grid.
C12_Witness ==
    /\ Len(snake.body) = 4
    /\ \E i \in 1..3 : snake.body[i].y = 0 /\ snake.body[i + 1].y = GRID_HEIGHT - 1
    /\ \E i \in 1..3 : snake.body[i].x # snake.body[i + 1].x

\* C13 (Spec): while the state is Menu or GameOver, ticks and direction-key
\* events leave the snake, the food, the score and the high score unchanged;
\* the body changes only on a tick taken in state Playing or when a game is
\* started, and a Playing tick advances the snake by exactly one cell.
C13_FrozenOutsidePlaying ==
    [][/\ (/\ state \in {"MENU", "GAME_OVER"}
           /\ \/ pc = "update"
              \/ Polling /\ \E ev \in DirectionKeys : Event(ev)) =>
             UNCHANGED <<snake, food, score, high_score>>
       /\ snake'.body # snake.body =>
             \/ PlayingTick
             \/ /\ Polling /\ state \in {"MENU", "GAME_OVER"}
                /\ Event("K_SPACE")
       /\ PlayingTick =>
             /\ snake'.body[1] = WrapStep(snake.body[1], snake.next_direction)
             /\ snake'.body # snake.body
             /\ \A i \in 2..Len(snake'.body) :
                    snake'.body[i] = snake.body[i - 1]]_vars

\* A lost game in which handle_input has returned and a tick is about to be
\* taken: the snake of the lost game, growth still pending, stays as it is.
C13_Witness ==
    /\ state = "GAME_OVER"
    /\ pc = "update"
    /\ running
    /\ snake.grow_pending
    /\ snake.next_direction = snake.direction


\* C14, as claimed (Spec): once a quit signal has been received the game
\* state, the snake, the food, the score and the high score are not changed
\* any more: no further key event and no further update step is applied.
C14_Original ==
    [][~running => UNCHANGED <<state, snake, food, score, high_score>>]_vars

\* C14, amended (Spec): a quit signal itself changes nothing but the running
\* flag, which stays cleared; the events still queued in that poll are
\* handled and the update step of that iteration still runs (they may change
\* the game once more); the loop exits right after that update step, and
\* after the exit nothing changes any more.
C14_QuitEndsIteration ==
    /\ [](pc = "done" => ~running /\ ~ENABLED Next)
    /\ [][/\ (running /\ ~running') =>
                UNCHANGED <<state, snake, food, score, high_score>>
          /\ ~running => ~running'
          /\ pc' = "done" <=> (pc = "update" /\ ~running)]_vars

\* The loop has exited after a quit signal polled in a playing game whose
\* last update step still moved the snake onto the food.
C14_Witness ==
    /\ pc = "done"
    /\ ~running
    /\ state = "PLAYING"
    /\ snake.grow_pending
    /\ Len(snake.body) >= 2


\* C15 (Spec): the food can lie on the snake, so a Playing tick in which the
\* head both lands on the food and collides with the body is reachable; in
\* such a tick the score gains 10 and the state becomes GameOver in the same
\* step (and the food is drawn again, growth is left pending).
C15_EatAndCollide ==
    [][(/\ PlayingTick
        /\ snake'.body[1] = food
        /\ \E i \in 2..Len(snake'.body) : snake'.body[i] = snake'.body[1]) =>
          /\ score' = score + 10
          /\ state' = "GAME_OVER"
          /\ high_score' >= score + 10
          /\ snake'.grow_pending]_vars

\* The state after such a tick: the game is lost with the head on another
\* segment, the growth of the food eaten in the losing tick still pending and
\* five foods counted for a body of five segments.
C15_Witness ==
    /\ state = "GAME_OVER"
    /\ HeadDuplicated(snake.body)
    /\ snake.grow_pending
    /\ score = FoodScore * Len(snake.body)
    /\ high_score >= score

\* C16 (Spec): in every reachable state, score = 10 * (len(body) - 1 +
\* (1 if grow_pending else 0)): every food eaten gives exactly one segment,
\* delivered by the update after the one that ate it; the score is a
\* non-negative multiple of 10.
C16_ScoreCountsSegments ==
    /\ score = 10 * (Len(snake.body) - 1 + (IF snake.grow_pending THEN 1 ELSE 0))
    /\ score >= 0
    /\ score % 10 = 0

\* A playing snake that has eaten four foods: four segments and the fourth
\* growth still pending.
C16_Witness ==
    /\ state = "PLAYING"
    /\ score = 40
    /\ Len(snake.body) = 4
    /\ snake.grow_pending

\* C17 (Spec): in every reachable state whose game state is Menu or Playing
\* the cells of the body are pairwise distinct; a body with a duplicated
\* cell exists only in state GameOver.
C17_DistinctUnlessGameOver ==
    state \in {"MENU", "PLAYING"} => BodyDistinct(snake.body)

\* A playing snake of four segments on four different cells, next to a lost
\* game's possibility: its head is a neighbour of its own tail.
C17_Witness ==
    /\ state = "PLAYING"
    /\ Len(snake.body) = 4
    /\ Cardinality({snake.body[i] : i \in 1..4}) = 4
    /\ \E d \in Direction : WrapStep(snake.body[1], d) = snake.body[4]

\* C18 (Spec): on a grid whose width and height are both at least 4, state
\* GameOver is reached only with a body of at least 5 segments, hence only
\* with score >= 40 (and so is every non-zero high score): a snake that has
\* eaten fewer than 4 foods cannot lose.
C18_NoEarlyGameOver ==
    (GRID_WIDTH >= 4 /\ GRID_HEIGHT >= 4) =>
        /\ state = "GAME_OVER" => Len(snake.body) >= 5 /\ score >= 40
        /\ high_score # 0 => high_score >= 40

\* The earliest possible loss on such a grid: five segments, score 40.
C18_Witness ==
    /\ GRID_WIDTH >= 4 /\ GRID_HEIGHT >= 4
    /\ state = "GAME_OVER"
    /\ Len(snake.body) = 5
    /\ score = 40
    /\ high_score = 40


\* C19 (LiveSpec): the running flag is monotonic: only a quit signal (QUIT,
\* or the quit key in GameOver) clears it and nothing sets it again; the loop
\* exits at the end of the iteration in which the quit signal was polled; so
\* once a quit signal is delivered the loop eventually terminates, and
\* without one it never terminates (GameOver alone does not end the loop).
C19_QuitTerminates ==
    /\ [][/\ ~running => ~running'
          /\ (running /\ ~running') =>
                /\ Polling
                /\ Event("QUIT") \/ (state = "GAME_OVER" /\ Event("K_q"))
          /\ (pc = "update" /\ ~running) => pc' = "done"
          /\ (pc = "update" /\ running) => pc' = "handle_input"]_vars
    /\ [](pc = "done" => ~running)
    /\ (~running ~> pc = "done")

\* The loop has exited from the game-over screen: the game was lost, went on
\* being polled, and ended only when the quit key was pressed.
C19_Witness ==
    /\ pc = "done"
    /\ ~running
    /\ state = "GAME_OVER"
    /\ high_score > 0

====
